---------------------------- MODULE Spec2Model ----------------------------
(***************************************************************************)
(* Spillway discharge calculator.                                          *)
(*                                                                         *)
(* spillway_discharge.py is a Streamlit script: every user interaction     *)
(* re-executes main() from the top against the session's st.session_state. *)
(* One action of Spec is one complete execution of main().                 *)
(*                                                                         *)
(* Numbers.  Heights are integers in hundredths (1.75 is 175), durations   *)
(* integers in tenths of an hour (3.0 h is 30), rates are integers.        *)
(* Discharges are exact rationals <<numerator, denominator>> in lowest     *)
(* terms.  The heights the model draws are multiples of 0.25, on which the *)
(* subtraction and comparison of binary floating point are exact.          *)
(***************************************************************************)
EXTENDS Integers, Sequences, FiniteSets, TLC

VARIABLES
    csv,              \* discharge_list.csv on disk: [status, rows]
    now,              \* the wall clock read by datetime.now()
    calculations,     \* st.session_state.calculations
    total_discharge,  \* st.session_state.total_discharge
    discharge_data,   \* st.session_state.discharge_data: [is_none, df]
    last_run,         \* what the latest execution of main() did
    display,          \* the "Calculation Results" section it rendered
    fn_in,            \* arguments handed to a function applied on its own
    fn_out            \* and the value it returned

vars == <<csv, now, calculations, total_discharge, discharge_data,
          last_run, display, fn_in, fn_out>>

session == <<csv, now, calculations, total_discharge, discharge_data,
             last_run, display>>

---------------------------------------------------------------------------
(* Bounds *)

MaxCalcs == 3       \* entries a session accumulates
MaxTime == 1        \* clock ticks
MaxRows == 3        \* rows of an enumerated rate table
MaxOldCalcs == 2    \* calculation blocks of the older script

---------------------------------------------------------------------------
(* Exact rational arithmetic for Python's float expressions *)

Abs(x) == IF x < 0 THEN -x ELSE x

RECURSIVE GCD(_, _)
GCD(a, b) == IF b = 0 THEN a ELSE GCD(b, a % b)

\* n / d for d > 0, in lowest terms
Rat(n, d) ==
    LET g == GCD(Abs(n), d) IN <<n \div g, d \div g>>

Zero == Rat(0, 1)

LCM(a, b) == (a \div GCD(a, b)) * b

RatAdd(p, q) ==
    LET l == LCM(p[2], q[2])
    IN  Rat(p[1] * (l \div p[2]) + q[1] * (l \div q[2]), l)

\* the value of a float division by zero: Python raises ZeroDivisionError
ZeroDivisionError == <<0, 0>>

\* p / n for an integer n >= 0
RatDiv(p, n) ==
    IF n = 0 THEN ZeroDivisionError
    ELSE LET g == GCD(Abs(p[1]), n)
         IN  <<p[1] \div g, p[2] * (n \div g)>>

RatMulInt(p, n) == Rat(p[1] * n, p[2])

RECURSIVE SumDischarge(_)
SumDischarge(entries) ==
    IF entries = <<>> THEN Zero
    ELSE RatAdd(SumDischarge(SubSeq(entries, 1, Len(entries) - 1)),
                entries[Len(entries)].discharge)

IsPrefix(s, t) == Len(s) <= Len(t) /\ SubSeq(t, 1, Len(s)) = s

---------------------------------------------------------------------------
(* Rate tables (pandas DataFrames with columns height, cfs) *)

Row(h, c) == [height |-> h, cfs |-> c]

\* the table create_sample_csv builds
sample_data ==
    << Row(50, 9000), Row(100, 18000), Row(150, 29000),
       Row(200, 38000), Row(250, 49000), Row(300, 58000) >>

\* another table a user may have put in discharge_list.csv
OtherTable == << Row(100, 20000), Row(200, 40000) >>

\* a file holding the header line and no data row parses to no rows
HeaderOnly == <<>>

CsvFile(status, rows) == [status |-> status, rows |-> rows]

CsvStates ==
    { CsvFile("missing", <<>>), CsvFile("unparsable", <<>>),
      CsvFile("ok", HeaderOnly), CsvFile("ok", sample_data),
      CsvFile("ok", OtherTable) }

\* create_sample_csv: writes the sample table to the file and returns it
create_sample_csv == [df |-> sample_data, csv |-> CsvFile("ok", sample_data)]

\* load_discharge_data: the table returned and the file left on disk
load_discharge_data_noFallback(file) ==
    IF file.status = "ok" THEN [df |-> file.rows, csv |-> file]
    ELSE [df |-> <<>>, csv |-> file]

load_discharge_data(file) ==
    IF file.status = "missing" THEN create_sample_csv
    ELSE IF file.status = "unparsable" THEN create_sample_csv
    ELSE [df |-> file.rows, csv |-> file]

---------------------------------------------------------------------------
(* get_cfs_for_height *)

\* rows of the frame whose height equals the requested one
ExactMatch(height, df) == SelectSeq(df, LAMBDA r : r.height = height)

\* Series.idxmin: one pass, an index replaces the best only when strictly smaller
RECURSIVE idxmin_from(_, _, _)
idxmin_from(dist, i, best) ==
    IF i > Len(dist) THEN best
    ELSE idxmin_from(dist, i + 1, IF dist[i] < dist[best] THEN i ELSE best)

idxmin(dist) == idxmin_from(dist, 2, 1)

RECURSIVE idxmin_last_from(_, _, _)
idxmin_last_from(dist, i, best) ==
    IF i > Len(dist) THEN best
    ELSE idxmin_last_from(dist, i + 1, IF dist[i] <= dist[best] THEN i ELSE best)

idxmin_last(dist) == idxmin_last_from(dist, 2, 1)

AbsDiff(height, df) == [i \in 1..Len(df) |-> Abs(df[i].height - height)]

Lookup(raised, cfs, exact) == [raised |-> raised, cfs |-> cfs, exact |-> exact]

\* the rate-0 answer the older scripts give when nothing matches
get_cfs_for_height_zero(height, df) ==
    LET exact_match == ExactMatch(height, df)
    IN  IF exact_match # <<>> THEN Lookup(FALSE, exact_match[1].cfs, TRUE)
        ELSE IF df = <<>> THEN Lookup(FALSE, 0, FALSE)
        ELSE Lookup(FALSE, df[idxmin(AbsDiff(height, df))].cfs, FALSE)

get_cfs_for_height_last(height, df) ==
    LET exact_match == ExactMatch(height, df)
    IN  IF exact_match # <<>> THEN Lookup(FALSE, exact_match[1].cfs, TRUE)
        ELSE IF df = <<>> THEN Lookup(TRUE, 0, FALSE)
        ELSE Lookup(FALSE, df[idxmin_last(AbsDiff(height, df))].cfs, FALSE)

\* raised: idxmin of an empty Series raises ValueError
get_cfs_for_height(height, df) ==
    LET exact_match == ExactMatch(height, df)
    IN  IF exact_match # <<>> THEN Lookup(FALSE, exact_match[1].cfs, TRUE)
        ELSE IF df = <<>> THEN Lookup(TRUE, 0, FALSE)
        ELSE Lookup(FALSE, df[idxmin(AbsDiff(height, df))].cfs, FALSE)

---------------------------------------------------------------------------
(* calculate_discharge *)

\* duration is in tenths, so the divisor carries the factor 10
Result(raised, ts, g, d, h, cfs, dis, exact) ==
    [raised |-> raised, timestamp |-> ts, num_gates |-> g, duration |-> d,
     gate_height |-> h, cfs_value |-> cfs, discharge |-> dis,
     exact_match |-> exact]

calculate_discharge_otherK(num_gates, duration, gate_height, df, ts) ==
    LET m == get_cfs_for_height(gate_height, df)
    IN  IF m.raised
        THEN Result(TRUE, ts, num_gates, duration, gate_height, 0, Zero, FALSE)
        ELSE Result(FALSE, ts, num_gates, duration, gate_height, m.cfs,
                    Rat(num_gates * duration * m.cfs, 10 * (16 * 12)), m.exact)

calculate_discharge(num_gates, duration, gate_height, df, ts) ==
    LET m == get_cfs_for_height(gate_height, df)
    IN  IF m.raised
        THEN Result(TRUE, ts, num_gates, duration, gate_height, 0, Zero, FALSE)
        ELSE Result(FALSE, ts, num_gates, duration, gate_height, m.cfs,
                    Rat(num_gates * duration * m.cfs, 10 * (16 * 24)), m.exact)

\* the dict main() appends: the result without the model's raised flag
Entry(r) ==
    [timestamp |-> r.timestamp, num_gates |-> r.num_gates,
     duration |-> r.duration, gate_height |-> r.gate_height,
     cfs_value |-> r.cfs_value, discharge |-> r.discharge,
     exact_match |-> r.exact_match]

---------------------------------------------------------------------------
(* main(): the session *)

\* number_input widgets: gates 1..50 step 1, duration 0.1..1000.0 h,
\* height 0.1..10.0.  What the user has entered when main() runs:
\* 2 gates, 3.0 h, height 1.00 (a table height), or
\* 1 gate, 0.1 h, height 1.75 (between two table heights)
Widgets(g, d, h) == [num_gates |-> g, duration |-> d, gate_height |-> h]

WidgetInputs == { Widgets(2, 30, 100), Widgets(1, 1, 175) }

NoneData == [is_none |-> TRUE, df |-> <<>>]
SomeData(df) == [is_none |-> FALSE, df |-> df]

\* initialize_session_state on a fresh session
initialize_session_state ==
    [calculations |-> <<>>, total_discharge |-> Zero, discharge_data |-> NoneData]

Acc(calcs, total) == [calculations |-> calcs, total_discharge |-> total]

\* the Calculate branch after calculate_discharge returned
AppendResult_noTotal(calcs, total, result) ==
    Acc(Append(calcs, Entry(result)), total)

AppendResult_front(calcs, total, result) ==
    Acc(<<Entry(result)>> \o calcs, RatAdd(total, result.discharge))

AppendResult(calcs, total, result) ==
    Acc(Append(calcs, Entry(result)), RatAdd(total, result.discharge))

\* the Clear branch
ClearAll_keepTotal(calcs, total) == Acc(<<>>, total)

ClearAll(calcs, total) == Acc(<<>>, Zero)

\* the "Calculation Results" section
Display(rendered, summary, count, total, avg) ==
    [rendered |-> rendered, summary |-> summary, count |-> count,
     total |-> total, avg |-> avg]

NotRendered == Display(FALSE, FALSE, 0, Zero, Zero)

Summary_noGuard(calcs, total) ==
    Display(TRUE, TRUE, Len(calcs), total, RatDiv(total, Len(calcs)))

Summary(calcs, total) ==
    IF Len(calcs) > 0
    THEN Display(TRUE, TRUE, Len(calcs), total, RatDiv(total, Len(calcs)))
    ELSE Display(TRUE, FALSE, 0, Zero, Zero)

\* ran: main() has run; button: the button that started the run; src: the
\* file's status when it was loaded; before: entries held when it started;
\* outcome: "ok", or the exception that ended the script
Run(ran, button, src, before, outcome) ==
    [ran |-> ran, button |-> button, src |-> src, before |-> before,
     outcome |-> outcome]

\* One execution of main() with the given button pressed and widget values.
main(button, w) ==
    LET load == load_discharge_data(csv)
        result == calculate_discharge(w.num_gates, w.duration, w.gate_height,
                                      load.df, now)
        acc == IF button = "calc"
               THEN AppendResult(calculations, total_discharge, result)
               ELSE IF button = "clear"
               THEN ClearAll(calculations, total_discharge)
               ELSE Acc(calculations, total_discharge)
    IN  /\ csv' = load.csv
        /\ discharge_data' = SomeData(load.df)
        /\ IF button = "calc" /\ result.raised
           THEN \* the exception ends the script before anything is appended
                /\ UNCHANGED <<calculations, total_discharge>>
                /\ last_run' = Run(TRUE, button, csv.status, Len(calculations),
                                "ValueError")
                /\ display' = NotRendered
           ELSE /\ calculations' = acc.calculations
                /\ total_discharge' = acc.total_discharge
                /\ last_run' = Run(TRUE, button, csv.status, Len(calculations), "ok")
                /\ display' = Summary(acc.calculations, acc.total_discharge)
        /\ UNCHANGED <<now, fn_in, fn_out>>

\* a rerun with no button pressed (first load, or a widget edited)
Rerun ==
    \E w \in WidgetInputs : main("none", w)

\* the Calculate button is on the page once main() has run
CalculateDischarge ==
    /\ last_run.ran
    /\ Len(calculations) < MaxCalcs
    /\ \E w \in WidgetInputs : main("calc", w)

\* the Clear button is on the page once main() has run
ClearAllCalculations ==
    /\ last_run.ran
    /\ \E w \in WidgetInputs : main("clear", w)

\* the file is replaced, emptied or deleted between two runs
EditCsv ==
    /\ \E f \in CsvStates : f # csv /\ csv' = f
    /\ UNCHANGED <<now, calculations, total_discharge, discharge_data,
                   last_run, display, fn_in, fn_out>>

Tick ==
    /\ now < MaxTime
    /\ now' = now + 1
    /\ UNCHANGED <<csv, calculations, total_discharge, discharge_data,
                   last_run, display, fn_in, fn_out>>

Idle == [op |-> "idle"]

Init ==
    /\ csv \in CsvStates
    /\ now = 0
    /\ calculations = initialize_session_state.calculations
    /\ total_discharge = initialize_session_state.total_discharge
    /\ discharge_data = initialize_session_state.discharge_data
    /\ last_run = Run(FALSE, "none", "missing", 0, "ok")
    /\ display = NotRendered
    /\ fn_in = Idle
    /\ fn_out = Idle

Next ==
    \/ Rerun
    \/ CalculateDischarge
    \/ ClearAllCalculations
    \/ EditCsv
    \/ Tick

Spec == Init /\ [][Next]_vars

---------------------------------------------------------------------------
(* The two older scripts: spillway_discharge_old.py and its one-entry copy *)

K == 384

\* rate_data = df[df['height'] == h]; rate 0 when it is empty
cfs_rate(gate_height, df) ==
    LET rate_data == ExactMatch(gate_height, df)
    IN  IF rate_data # <<>>
        THEN [empty |-> FALSE, cfs |-> rate_data[1].cfs]
        ELSE [empty |-> TRUE, cfs |-> 0]

\* the SPD of one calculation block of the older script
spd(calc, df) ==
    Rat(calc.num_gates * calc.duration * cfs_rate(calc.gate_height, df).cfs,
        10 * 384)

\* its total: the blocks whose height has no row are skipped
RECURSIVE total_spd(_, _)
total_spd(calcs, df) ==
    IF calcs = <<>> THEN Zero
    ELSE LET calc == calcs[Len(calcs)]
             rest == total_spd(SubSeq(calcs, 1, Len(calcs) - 1), df)
         IN  IF cfs_rate(calc.gate_height, df).empty THEN rest
             ELSE RatAdd(rest,
                         Rat(calc.num_gates * calc.duration
                               * cfs_rate(calc.gate_height, df).cfs,
                             10 * 384))

\* the single SPD of the copy
spd_1(num_of_gates, duration, gate_height, df) ==
    Rat(num_of_gates * duration * cfs_rate(gate_height, df).cfs,
        10 * (16 * 24))

---------------------------------------------------------------------------
(* Functions applied on their own to enumerated arguments *)

SeqsUpTo(S, lo, hi) == UNION { [1..n -> S] : n \in lo..hi }

SessionIdle ==
    /\ csv = CsvFile("ok", sample_data)
    /\ now = 0
    /\ calculations = initialize_session_state.calculations
    /\ total_discharge = initialize_session_state.total_discharge
    /\ discharge_data = initialize_session_state.discharge_data
    /\ last_run = Run(FALSE, "none", "missing", 0, "ok")
    /\ display = NotRendered

\* get_cfs_for_height on every table of up to MaxRows rows and on the sample
ResolveRows == { Row(h, c) : h \in {100, 150, 200}, c \in {18000, 29000} }
ResolveTables == SeqsUpTo(ResolveRows, 0, MaxRows) \cup {sample_data}
ResolveHeights == {50, 100, 125, 175, 200, 1000}

InitResolve ==
    /\ SessionIdle
    /\ fn_in \in [op : {"resolve"}, height : ResolveHeights, df : ResolveTables]
    /\ fn_out = Idle

Resolve ==
    /\ fn_out = Idle
    /\ fn_out' = [op |-> "get_cfs_for_height",
                  result |-> get_cfs_for_height(fn_in.height, fn_in.df)]
    /\ UNCHANGED <<session, fn_in>>

NextResolve == Resolve

SpecResolve == InitResolve /\ [][NextResolve]_vars

\* the three discharge formulas on the same calculations and table
FormulaCalcs ==
    { Widgets(g, d, h) : g \in {0, 1, 2}, d \in {-10, 0, 30}, h \in {50, 175} }
FormulaTables == { sample_data, HeaderOnly, <<Row(175, 9000)>> }

None == <<>>
Some(x) == <<x>>

InitFormula ==
    /\ SessionIdle
    /\ fn_in \in [op : {"formula"},
                  calcs : SeqsUpTo(FormulaCalcs, 1, MaxOldCalcs),
                  df : FormulaTables]
    /\ fn_out = [op |-> "formula", new |-> None, old |-> None, copy |-> None]

\* calculate_discharge of spillway_discharge.py on the first calculation
ApplyCalculateDischarge ==
    /\ fn_out.new = None
    /\ LET c == fn_in.calcs[1]
       IN  fn_out' = [fn_out EXCEPT !.new =
              Some(calculate_discharge(c.num_gates, c.duration, c.gate_height,
                                       fn_in.df, now))]
    /\ UNCHANGED <<session, fn_in>>

\* one run of the older script over all its calculation blocks
ApplyOldScript ==
    /\ fn_out.old = None
    /\ fn_out' = [fn_out EXCEPT !.old =
          Some([spd |-> [i \in 1..Len(fn_in.calcs) |->
                            spd(fn_in.calcs[i], fn_in.df)],
                total_spd |-> total_spd(fn_in.calcs, fn_in.df)])]
    /\ UNCHANGED <<session, fn_in>>

\* one run of the copy on the first calculation
ApplyCopyScript ==
    /\ fn_out.copy = None
    /\ LET c == fn_in.calcs[1]
       IN  fn_out' = [fn_out EXCEPT !.copy =
              Some(spd_1(c.num_gates, c.duration, c.gate_height, fn_in.df))]
    /\ UNCHANGED <<session, fn_in>>

NextFormula ==
    \/ ApplyCalculateDischarge
    \/ ApplyOldScript
    \/ ApplyCopyScript

SpecFormula == InitFormula /\ [][NextFormula]_vars

---------------------------------------------------------------------------
(* Properties of the session (Spec) *)

\* C1: after any sequence of Calculate, Clear and plain reruns the session's
\* total_discharge is the sum of the discharge fields of the entries now in
\* calculations, and the summary's count is the length of that list.
C1_TotalIsSum ==
    /\ total_discharge = SumDischarge(calculations)
    /\ display.summary =>
          /\ display.count = Len(calculations)
          /\ display.total = total_discharge

C1_Witness ==
    /\ Len(calculations) = 3
    /\ calculations[1].discharge # calculations[2].discharge
    /\ last_run.button = "calc"
    /\ display.summary
    /\ display.count = 3

\* C5: a Calculate run whose table is empty ends in the exception: it yields no
\* rate 0 and no discharge, appends nothing, and leaves calculations and
\* total_discharge as they were.
C5_EmptyTableFails ==
    [][ (last_run'.button = "calc" /\ discharge_data'.df = <<>>) =>
            /\ last_run'.outcome = "ValueError"
            /\ display' = NotRendered
            /\ UNCHANGED <<calculations, total_discharge>> ]_vars

C5_Witness ==
    /\ last_run.button = "calc"
    /\ last_run.outcome = "ValueError"
    /\ discharge_data.df = <<>>
    /\ Len(calculations) = 2
    /\ total_discharge # Zero

\* C6: a Clear run leaves calculations empty and total_discharge 0.0, whatever
\* the list held before, and no state has one of the two reset without the other.
C6_ClearResetsBoth ==
    /\ last_run.button = "clear" =>
          /\ calculations = <<>>
          /\ total_discharge = Zero
          /\ display = Display(TRUE, FALSE, 0, Zero, Zero)
    /\ (calculations = <<>>) <=> (total_discharge = Zero)

C6_Witness ==
    /\ last_run.button = "clear"
    /\ last_run.before = 3
    /\ calculations = <<>>
    /\ total_discharge = Zero

\* C7: the summary divides total_discharge by the count only when the count is at
\* least 1; with no entries (session start, after a clear) no average is computed
\* and nothing is divided by zero.
C7_AverageGuarded ==
    /\ display.avg # ZeroDivisionError
    /\ display.summary =>
          /\ display.count >= 1
          /\ display.avg[2] > 0
          /\ RatMulInt(display.avg, display.count) = display.total
    /\ (display.rendered /\ calculations = <<>>) => ~display.summary
    /\ (display.rendered /\ calculations # <<>>) => display.summary

C7_Witness ==
    /\ display.rendered
    /\ ~display.summary
    /\ last_run.button = "clear"
    /\ last_run.before = 2

C9_AppendOnly ==
    [][ /\ Rerun => UNCHANGED <<calculations, total_discharge>>
        /\ (CalculateDischarge /\ last_run'.outcome = "ok") =>
              /\ Len(calculations') = Len(calculations) + 1
              /\ SubSeq(calculations', 1, Len(calculations)) = calculations
        /\ (CalculateDischarge /\ last_run'.outcome # "ok") =>
              UNCHANGED <<calculations, total_discharge>>
        /\ ~ClearAllCalculations => IsPrefix(calculations, calculations') ]_vars

C9_Witness ==
    /\ last_run.button = "calc"
    /\ last_run.before = 2
    /\ Len(calculations) = 3
    /\ calculations[1] # calculations[3]

\* C10: the table is loaded once and every later run uses that same table, even
\* when the file has changed since.
C10_LoadedOnce ==
    [][ ~discharge_data.is_none => discharge_data' = discharge_data ]_vars

---------------------------------------------------------------------------
(* Properties of get_cfs_for_height (SpecResolve) *)

Dist(i) == Abs(fn_in.df[i].height - fn_in.height)

\* row i is the first row, in table order, at the least distance
FirstNearest(i) ==
    /\ \A j \in 1..Len(fn_in.df) : Dist(i) <= Dist(j)
    /\ \A j \in 1..(i - 1) : Dist(j) > Dist(i)

\* row i is the first row whose height is the requested one
FirstEqual(i) ==
    /\ fn_in.df[i].height = fn_in.height
    /\ \A j \in 1..(i - 1) : fn_in.df[j].height # fn_in.height

\* C2: on a non-empty table get_cfs_for_height returns the rate of the first row
\* at the least distance from the requested height; exact is true exactly when a
\* row has that height, and then the rate is the first such row's; on the sample
\* table 1.75 gives 29000, not exact.
C2_FirstNearest ==
    (fn_out.op = "get_cfs_for_height" /\ fn_in.df # <<>>) =>
        LET r == fn_out.result
        IN  /\ ~r.raised
            /\ \E i \in 1..Len(fn_in.df) :
                  FirstNearest(i) /\ r.cfs = fn_in.df[i].cfs
            /\ r.exact <=> (\E j \in 1..Len(fn_in.df) :
                               fn_in.df[j].height = fn_in.height)
            /\ r.exact => \E i \in 1..Len(fn_in.df) :
                             FirstEqual(i) /\ r.cfs = fn_in.df[i].cfs
            /\ (fn_in.df = sample_data /\ fn_in.height = 175) =>
                  (r.cfs = 29000 /\ ~r.exact)

C2_Witness ==
    /\ fn_out.op = "get_cfs_for_height"
    /\ fn_in.df = sample_data
    /\ fn_in.height = 175
    /\ fn_out.result = Lookup(FALSE, 29000, FALSE)

---------------------------------------------------------------------------
(* Properties of the discharge formulas (SpecFormula) *)

\* gates x hours x rate / K, the duration being in tenths of an hour
Formula(c, rate) == Rat(c.num_gates * c.duration * rate, 10 * K)

RECURSIVE SumSeq(_)
SumSeq(q) ==
    IF q = <<>> THEN Zero
    ELSE RatAdd(SumSeq(SubSeq(q, 1, Len(q) - 1)), q[Len(q)])

\* C3: every script divides gates x hours x rate by the same K = 384: the entry
\* of spillway_discharge.py, each SPD and the total SPD of the older script and
\* the SPD of its copy are all the formula's value for the rate they resolved,
\* and agree with one another whenever they resolved the same rate.
C3_SameK ==
    LET c == fn_in.calcs[1]
    IN  fn_out.op = "formula" =>
        /\ (fn_out.new # None /\ ~fn_out.new[1].raised) =>
              fn_out.new[1].discharge = Formula(c, fn_out.new[1].cfs_value)
        /\ fn_out.old # None =>
              /\ \A i \in 1..Len(fn_in.calcs) :
                    fn_out.old[1].spd[i] =
                       Formula(fn_in.calcs[i],
                               cfs_rate(fn_in.calcs[i].gate_height, fn_in.df).cfs)
              /\ fn_out.old[1].total_spd = SumSeq(fn_out.old[1].spd)
        /\ fn_out.copy # None =>
              fn_out.copy[1] = Formula(c, cfs_rate(c.gate_height, fn_in.df).cfs)
        /\ (fn_out.new # None /\ ~fn_out.new[1].raised /\ fn_out.old # None
              /\ fn_out.copy # None
              /\ fn_out.new[1].cfs_value = cfs_rate(c.gate_height, fn_in.df).cfs) =>
              /\ fn_out.new[1].discharge = fn_out.old[1].spd[1]
              /\ fn_out.new[1].discharge = fn_out.copy[1]
              /\ Len(fn_in.calcs) = 1 =>
                    fn_out.old[1].total_spd = fn_out.new[1].discharge

\* 2 gates, 3 hours, rate 9000: 140.625 = 1125/8 from all three
C3_Witness ==
    /\ fn_out.op = "formula"
    /\ fn_in.calcs = <<Widgets(2, 30, 50)>>
    /\ fn_in.df = sample_data
    /\ fn_out.new # None /\ fn_out.old # None /\ fn_out.copy # None
    /\ fn_out.new[1].cfs_value = 9000
    /\ fn_out.new[1].discharge = <<1125, 8>>
    /\ fn_out.old[1].total_spd = <<1125, 8>>
    /\ fn_out.copy[1] = <<1125, 8>>

=============================================================================
